---- MODULE Spec2Model ----
(***************************************************************************)
(* A model of the Karachi AQI predictor: the AQI calculator and collector  *)
(* (src/src/data/collector.py), the feature engineer                        *)
(* (src/src/features/engineer.py) and the trainer/predictor                 *)
(* (src/src/models/trainer.py).                                             *)
(*                                                                          *)
(* Numbers.  A float is modelled by the exact rational it denotes, a pair   *)
(* <<n, d>> in lowest terms with d > 0; the missing value (NaN / None) is   *)
(* the pair <<0, 0>>.  Concentrations are drawn from a grid of hundredths.  *)
(***************************************************************************)
EXTENDS Integers, Sequences, FiniteSets, TLC

VARIABLES
    pm25,        \* calculate_aqi: the pm2.5 sequence passed in
    aqi,         \* calculate_aqi: the array returned (<<>> before the call)
    pc,          \* collector main(): position in the run
    requests,    \* collector: HTTP requests issued, per method
    responses,   \* collector: what each request met (the response, the disk)
    current,     \* collector main(): result of get_current_aqi
    historical,  \* collector main(): result of get_historical_data
    csv_saved,   \* collector: number of data/raw/*.csv files written
    json_saved,  \* collector main(): current_aqi.json written
    raised,      \* collector: exception that escaped to the caller of main
    df,          \* create_features: the table passed in
    features,    \* create_features: the table returned
    daily_in,    \* create_daily_data: the table passed in
    daily,       \* create_daily_data: the table returned
    sklearn,     \* trainer: the scikit-learn release the build runs on
    model,       \* SimpleAQIModel.model: the RandomForestRegressor
    feature_importance,  \* SimpleAQIModel.feature_importance
    model_file,  \* models/aqi_model.joblib
    last         \* trainer: the last call on the SimpleAQIModel and its outcome

vars == <<pm25, aqi, pc, requests, responses, current, historical, csv_saved, json_saved, raised,
         df, features, daily_in, daily,
         sklearn, model, feature_importance, model_file, last>>

----------------------------------------------------------------------------
(* Bounds of the model *)

\* largest concentration of the monotonicity grid, in hundredths of ug/m3
MaxConc == 25100
\* largest distance, in hundredths, between the two concentrations compared
MaxGap == 10
\* largest number of hourly rows in a fetched payload
MaxRows == 2
\* largest number of rows of a table given to create_features
MaxLen == 27
\* largest number of calendar dates in a table given to create_daily_data
MaxDates == 9
\* largest number of rows of a table given to SimpleAQIModel.train
MaxTrainRows == 5

----------------------------------------------------------------------------
(* Exact arithmetic on the values floats denote *)

NaN == <<0, 0>>

isna(x) == x[2] = 0

Abs(n) == IF n < 0 THEN -n ELSE n

RECURSIVE GCD(_, _)
GCD(a, b) == IF b = 0 THEN a ELSE GCD(b, a % b)

\* n/d in lowest terms, d > 0
Q(n, d) == LET g == GCD(Abs(n), d) IN <<n \div g, d \div g>>

\* a decimal literal given in hundredths: Dec(1210) is 12.1
Dec(h) == Q(h, 100)

Add(x, y) == Q(x[1] * y[2] + y[1] * x[2], x[2] * y[2])
Sub(x, y) == Q(x[1] * y[2] - y[1] * x[2], x[2] * y[2])
Mul(x, y) == Q(x[1] * y[1], x[2] * y[2])
\* x / y for y > 0
Div(x, y) == Q(x[1] * y[2], x[2] * y[1])

\* x <= y; False when either side is NaN, as for floats
Leq(x, y) == ~isna(x) /\ ~isna(y) /\ x[1] * y[2] <= y[1] * x[2]

\* round(x, k) to k decimals, ties to even; the result in units of 10^-k
Pow10(k) == IF k = 0 THEN 1 ELSE IF k = 1 THEN 10 ELSE 100
RoundUnits(x, k) ==
    LET s == x[1] * Pow10(k)
        f == s \div x[2]
        r == s % x[2]
    IN  IF 2 * r < x[2] THEN f
        ELSE IF 2 * r > x[2] THEN f + 1
        ELSE IF f % 2 = 0 THEN f ELSE f + 1

----------------------------------------------------------------------------
(* AQI calculator: KarachiAQICollector.calculate_aqi / get_aqi_category *)

\* the six branches of the loop of calculate_aqi, one per breakpoint band
Band1(value) == Mul(value, Div(Dec(5000), Dec(1200)))
Band2(value) == Add(Dec(5000), Mul(Sub(value, Dec(1210)), Div(Dec(5000), Dec(2330))))
\* the band computed from its lower edge 35.4 instead of its anchor 35.5
Band3_FromEdge(value) ==
    Add(Dec(10000), Mul(Sub(value, Dec(3540)), Div(Dec(5000), Dec(1990))))
Band3(value) == Add(Dec(10000), Mul(Sub(value, Dec(3550)), Div(Dec(5000), Dec(1990))))
Band4(value) == Add(Dec(15000), Mul(Sub(value, Dec(5550)), Div(Dec(5000), Dec(9490))))
Band5(value) == Add(Dec(20000), Mul(Sub(value, Dec(15050)), Div(Dec(10000), Dec(9990))))
Band6(value) == Add(Dec(30000), Mul(Sub(value, Dec(25050)), Div(Dec(20000), Dec(24990))))

\* one iteration of the loop of calculate_aqi
AqiOf(value) ==
    IF isna(value) THEN NaN
    ELSE IF Leq(value, Dec(1200)) THEN Band1(value)
    ELSE IF Leq(value, Dec(3540)) THEN Band2(value)
    ELSE IF Leq(value, Dec(5540)) THEN Band3(value)
    ELSE IF Leq(value, Dec(15040)) THEN Band4(value)
    ELSE IF Leq(value, Dec(25040)) THEN Band5(value)
    ELSE Band6(value)

calculate_aqi(pm) == [i \in 1..Len(pm) |-> AqiOf(pm[i])]

get_aqi_category_NoUnknown(a) ==
    IF Leq(a, Dec(5000)) THEN "Good"
    ELSE IF Leq(a, Dec(10000)) THEN "Moderate"
    ELSE IF Leq(a, Dec(15000)) THEN "Unhealthy for Sensitive"
    ELSE IF Leq(a, Dec(20000)) THEN "Unhealthy"
    ELSE IF Leq(a, Dec(30000)) THEN "Very Unhealthy"
    ELSE "Hazardous"

get_aqi_category(a) ==
    IF isna(a) THEN "Unknown"
    ELSE IF Leq(a, Dec(5000)) THEN "Good"
    ELSE IF Leq(a, Dec(10000)) THEN "Moderate"
    ELSE IF Leq(a, Dec(15000)) THEN "Unhealthy for Sensitive"
    ELSE IF Leq(a, Dec(20000)) THEN "Unhealthy"
    ELSE IF Leq(a, Dec(30000)) THEN "Very Unhealthy"
    ELSE "Hazardous"

----------------------------------------------------------------------------
(* The calculator applied to pairs of concentrations c1 <= c2 *)

NoBody == [json_ok |-> FALSE, current |-> {}, has_hourly |-> FALSE,
           has_time |-> FALSE, has_pm2_5 |-> FALSE, pm2_5 |-> <<>>]

\* no request issued yet
NoResponse == [error |-> "pending", status_code |-> 0, body |-> NoBody]

EmptyDataFrame == [columns |-> {}, rows |-> <<>>]

CollectorIdle ==
    /\ pc = "idle"
    /\ requests = [current |-> 0, historical |-> 0]
    /\ responses = [current |-> NoResponse, historical |-> NoResponse, disk_ok |-> TRUE]
    /\ current = {}
    /\ historical = EmptyDataFrame
    /\ csv_saved = 0
    /\ json_saved = FALSE
    /\ raised = "none"

collectorVars == <<pc, requests, responses, current, historical, csv_saved, json_saved, raised>>

NoFeatures == [ready |-> FALSE, rows |-> <<>>]

\* RandomForestRegressor(n_estimators=100, random_state=42), not fitted
UnfittedModel == [fitted |-> FALSE, feature_names_in_ |-> <<>>, trained_on |-> <<>>]

\* self.feature_importance = None
None == [set |-> FALSE, feature |-> {}]

NoCall == [op |-> "none", error |-> "none", X |-> <<>>, columns |-> <<>>,
           has_nan |-> FALSE, X_train |-> <<>>, X_test |-> <<>>,
           fit_rows |-> <<>>, eval_rows |-> <<>>, returned |-> FALSE]

NoFile == [exists |-> FALSE, model |-> UnfittedModel, feature_importance |-> None]

TrainerIdle ==
    /\ sklearn = "none"
    /\ model = UnfittedModel
    /\ feature_importance = None
    /\ model_file = NoFile
    /\ last = NoCall

trainerVars == <<sklearn, model, feature_importance, model_file, last>>

FeaturesIdle ==
    /\ df = <<>> /\ features = NoFeatures
    /\ daily_in = <<>> /\ daily = NoFeatures

featureVars == <<df, features, daily_in, daily>>

InitAqi ==
    /\ \E c1 \in 0..MaxConc, g \in 0..MaxGap : pm25 = <<Dec(c1), Dec(c1 + g)>>
    /\ aqi = <<>>
    /\ CollectorIdle
    /\ FeaturesIdle
    /\ TrainerIdle

CalculateAqi ==
    /\ aqi = <<>>
    /\ aqi' = calculate_aqi(pm25)
    /\ UNCHANGED <<pm25, collectorVars, featureVars, trainerVars>>

NextAqi == CalculateAqi

SpecAqi == InitAqi /\ [][NextAqi]_vars

\* C1: calculate_aqi is monotonically non-decreasing on the 0.01 grid, band
\* boundaries included: for c1 <= c2, calculate_aqi(c1) <= calculate_aqi(c2).
C1_Monotone == aqi # <<>> => Leq(aqi[1], aqi[2])

\* the case of C1: two concentrations on either side of a band's upper edge
C1_Case == aqi # <<>> /\ pm25[1] = Dec(1200) /\ pm25[2] = Dec(1201)

----------------------------------------------------------------------------
(* Collector: get_current_aqi, get_historical_data and main *)

AqiIdle == pm25 = <<>> /\ aqi = <<>>

\* pm2.5 readings a payload may carry; None in the JSON is the missing value
PmValues == {NaN, Dec(1000), Dec(1205), Dec(2000), Dec(4000), Dec(10000),
             Dec(20000), Dec(30000)}

RECURSIVE SeqsUpTo(_, _)
SeqsUpTo(S, n) ==
    IF n = 0 THEN {<<>>}
    ELSE LET shorter == SeqsUpTo(S, n - 1)
         IN  shorter \cup {Append(q, v) : q \in {t \in shorter : Len(t) = n - 1}, v \in S}

\* what requests.get(...) can do: raise, or return a response
FailedResponses ==
    {[error |-> e, status_code |-> 0, body |-> NoBody] : e \in {"ConnectionError", "Timeout"}}
    \cup {[error |-> "none", status_code |-> c, body |-> NoBody] : c \in {404, 500}}

CurrentDict == {<<"us_aqi", Dec(14500)>>, <<"pm2_5", Dec(4520)>>, <<"pm10", Dec(7850)>>}

CurrentResponses ==
    FailedResponses
    \cup {[error |-> "none", status_code |-> 200,
           body |-> [NoBody EXCEPT !.json_ok = j, !.current = c]] :
             j \in BOOLEAN, c \in {{}, CurrentDict}}

HistoricalResponses ==
    FailedResponses
    \cup {[error |-> "none", status_code |-> 200, body |-> NoBody]}
    \cup {[error |-> "none", status_code |-> 200,
           body |-> [NoBody EXCEPT !.json_ok = TRUE, !.has_hourly = h, !.has_time = t,
                                   !.has_pm2_5 = p, !.pm2_5 = s]] :
             h \in BOOLEAN, t \in BOOLEAN, p \in BOOLEAN, s \in SeqsUpTo(PmValues, MaxRows)}

\* the fetch failed: network error, timeout or non-200 status
FetchFailed(resp) == resp.error # "none" \/ resp.status_code # 200

\* get_current_aqi: the value returned, the exception that escapes, the requests issued
get_current_aqi(resp) ==
    [value |-> IF resp.error # "none" THEN {}
               ELSE IF resp.status_code # 200 THEN {}
               ELSE IF ~resp.body.json_ok THEN {}
               ELSE resp.body.current,
     raised |-> "none",
     requests |-> 1]

\* the table get_historical_data builds from a 200 response with an "hourly" object
BuildFrame(body) ==
    LET pm == body.pm2_5
        a == calculate_aqi(pm)
    IN  [columns |-> (IF body.has_time THEN {"timestamp"} ELSE {})
                     \cup {"pm2_5", "pm10", "ozone", "city", "latitude", "longitude",
                           "aqi", "aqi_category"},
         rows |-> [i \in 1..Len(pm) |->
                     [timestamp |-> i, pm2_5 |-> pm[i], city |-> "Karachi",
                      aqi |-> a[i], aqi_category |-> get_aqi_category(a[i])]]]

\* whether the try block of get_historical_data raises before it returns df
HistoricalRaises(resp, disk_ok) ==
    \/ resp.error # "none"
    \/ /\ resp.status_code = 200
       /\ \/ ~resp.body.json_ok
          \/ ~resp.body.has_hourly
          \/ ~resp.body.has_pm2_5
          \/ ~disk_ok

\* get_historical_data retrying a failed request once
get_historical_data_Retry(resp, disk_ok) ==
    [value |-> IF HistoricalRaises(resp, disk_ok) \/ resp.status_code # 200
               THEN EmptyDataFrame ELSE BuildFrame(resp.body),
     raised |-> "none",
     requests |-> IF FetchFailed(resp) THEN 2 ELSE 1,
     csv |-> IF HistoricalRaises(resp, disk_ok) \/ resp.status_code # 200 THEN 0 ELSE 1]

\* get_historical_data: the table returned, the exception that escapes, the requests
\* issued, the CSV files written
get_historical_data(resp, disk_ok) ==
    [value |-> IF HistoricalRaises(resp, disk_ok) THEN EmptyDataFrame
               ELSE IF resp.status_code # 200 THEN EmptyDataFrame
               ELSE BuildFrame(resp.body),
     raised |-> "none",
     requests |-> 1,
     csv |-> IF HistoricalRaises(resp, disk_ok) \/ resp.status_code # 200 THEN 0 ELSE 1]

\* main(): current = collector.get_current_aqi()
MainCurrent ==
    /\ pc = "start"
    /\ \E resp \in CurrentResponses :
         LET r == get_current_aqi(resp)
         IN  /\ requests' = [requests EXCEPT !.current = @ + r.requests]
             /\ responses' = [responses EXCEPT !.current = resp]
             /\ current' = r.value
             /\ raised' = r.raised
             /\ pc' = IF r.raised = "none" THEN "current_fetched" ELSE "crashed"
    /\ UNCHANGED <<pm25, aqi, historical, csv_saved, json_saved, featureVars, trainerVars>>

\* main(): historical = collector.get_historical_data(days=3)
MainHistorical ==
    /\ pc = "current_fetched"
    /\ \E resp \in HistoricalResponses, disk_ok \in BOOLEAN :
         LET r == get_historical_data(resp, disk_ok)
         IN  /\ requests' = [requests EXCEPT !.historical = @ + r.requests]
             /\ responses' = [responses EXCEPT !.historical = resp, !.disk_ok = disk_ok]
             /\ historical' = r.value
             /\ csv_saved' = csv_saved + r.csv
             /\ raised' = r.raised
             /\ pc' = IF r.raised = "none" THEN "historical_fetched" ELSE "crashed"
    /\ UNCHANGED <<pm25, aqi, current, json_saved, featureVars, trainerVars>>

\* main(): the summary of a non-empty table and the save of the current data
MainSummary ==
    /\ pc = "historical_fetched"
    /\ IF historical.rows = <<>>
       THEN pc' = "done" /\ UNCHANGED <<json_saved, raised>>
       ELSE IF "timestamp" \notin historical.columns
       THEN pc' = "crashed" /\ raised' = "KeyError" /\ UNCHANGED json_saved
       ELSE /\ pc' = "done"
            /\ json_saved' = (json_saved \/ current # {})
            /\ UNCHANGED raised
    /\ UNCHANGED <<pm25, aqi, requests, responses, current, historical, csv_saved,
                   featureVars, trainerVars>>

InitCollector ==
    /\ AqiIdle
    /\ FeaturesIdle
    /\ TrainerIdle
    /\ pc = "start"
    /\ requests = [current |-> 0, historical |-> 0]
    /\ responses = [current |-> NoResponse, historical |-> NoResponse, disk_ok |-> TRUE]
    /\ current = {}
    /\ historical = EmptyDataFrame
    /\ csv_saved = 0
    /\ json_saved = FALSE
    /\ raised = "none"

NextCollector == MainCurrent \/ MainHistorical \/ MainSummary

SpecCollector == InitCollector /\ [][NextCollector]_vars

Rows(t) == {t.rows[i] : i \in 1..Len(t.rows)}

\* C2 (as stated): pm2_5 = 10 gives aqi 41.67 and 'Good'; pm2_5 = 40 gives aqi 112.6
\* to one decimal and 'Unhealthy for Sensitive'.
C2_ScenarioAsStated ==
    \A r \in Rows(historical) :
        /\ r.pm2_5 = Dec(1000) =>
             RoundUnits(r.aqi, 2) = 4167 /\ r.aqi_category = "Good"
        /\ r.pm2_5 = Dec(4000) =>
             RoundUnits(r.aqi, 1) = 1126 /\ r.aqi_category = "Unhealthy for Sensitive"

\* C2 (amended): pm2_5 = 10 gives aqi 41.67 and 'Good'; pm2_5 = 40 gives aqi 111.31
\* (111.3 to one decimal) and 'Unhealthy for Sensitive'.
C2_Scenario ==
    \A r \in Rows(historical) :
        /\ r.pm2_5 = Dec(1000) =>
             RoundUnits(r.aqi, 2) = 4167 /\ r.aqi_category = "Good"
        /\ r.pm2_5 = Dec(4000) =>
             /\ RoundUnits(r.aqi, 2) = 11131
             /\ RoundUnits(r.aqi, 1) = 1113
             /\ r.aqi_category = "Unhealthy for Sensitive"

\* both scenario concentrations went through calculate_aqi in one fetched table
C2_Witness ==
    /\ pc = "done"
    /\ \E r \in Rows(historical) : r.pm2_5 = Dec(1000)
    /\ \E r \in Rows(historical) : r.pm2_5 = Dec(4000)

\* C3: missing values propagate and never raise: the AQI is missing exactly where
\* pm2_5 is missing, the category is 'Unknown' exactly there, and a payload with
\* missing readings yields one record per reading.
C3_MissingPropagates ==
    /\ \A r \in Rows(historical) :
          /\ isna(r.aqi) <=> isna(r.pm2_5)
          /\ r.aqi_category = "Unknown" <=> isna(r.pm2_5)
    /\ (/\ pc \in {"historical_fetched", "done", "crashed"}
        /\ ~FetchFailed(responses.historical)
        /\ ~HistoricalRaises(responses.historical, responses.disk_ok))
       => /\ Len(historical.rows) = Len(responses.historical.body.pm2_5)
          /\ \A i \in 1..Len(historical.rows) :
                historical.rows[i].pm2_5 = responses.historical.body.pm2_5[i]

\* a table with a missing and a non-missing reading was built
C3_Witness ==
    /\ pc = "done"
    /\ \E r \in Rows(historical) : isna(r.pm2_5) /\ r.aqi_category = "Unknown"
    /\ \E r \in Rows(historical) : ~isna(r.pm2_5) /\ r.aqi_category # "Unknown"

\* C10: each of get_current_aqi and get_historical_data issues exactly one request;
\* a failed request yields the empty result, nothing is raised, and main runs on to
\* its end.
C10_FetchAbsorbed ==
    /\ pc \in {"current_fetched", "historical_fetched", "done", "crashed"} =>
          /\ requests.current = 1
          /\ FetchFailed(responses.current) => current = {}
    /\ pc \in {"historical_fetched", "done"} =>
          /\ requests.historical = 1
          /\ FetchFailed(responses.historical) => historical = EmptyDataFrame
    /\ pc = "current_fetched" => ENABLED MainHistorical
    /\ pc = "historical_fetched" => ENABLED MainSummary
    /\ pc = "crashed" =>
          /\ raised = "KeyError"
          /\ requests.historical = 1
          /\ ~FetchFailed(responses.historical)
    /\ pc # "crashed" => raised = "none"

\* both requests failed and main reached its end
C10_Witness ==
    /\ pc = "done"
    /\ FetchFailed(responses.current)
    /\ FetchFailed(responses.historical)
    /\ responses.historical.error = "Timeout"

----------------------------------------------------------------------------
(* Feature engineer, hourly path: AQIFeatureEngineer.create_features *)

\* pandas Series.shift(k): the value k rows earlier (later, for k < 0) in row order
shift(s, k) ==
    [i \in 1..Len(s) |-> IF i - k >= 1 /\ i - k <= Len(s) THEN s[i - k] ELSE NaN]

RECURSIVE SumRange(_, _, _)
SumRange(s, lo, hi) == IF lo > hi THEN Dec(0) ELSE Add(s[lo], SumRange(s, lo + 1, hi))

\* pandas Series.rolling(w).mean(): min_periods = w, so the mean of the w rows
\* ending at the current row, missing unless all w are there and non-missing
rolling_mean(s, w) ==
    [i \in 1..Len(s) |->
        IF i < w THEN NaN
        ELSE IF \E j \in (i - w + 1)..i : isna(s[j]) THEN NaN
        ELSE Div(SumRange(s, i - w + 1, i), Q(w, 1))]

\* the rows of s that are not missing, in order
RECURSIVE dropna(_)
dropna(s) ==
    IF s = <<>> THEN <<>>
    ELSE IF isna(Head(s)) THEN dropna(Tail(s))
    ELSE <<Head(s)>> \o dropna(Tail(s))

\* pandas mean(): skips missing values, missing when none is left
mean(s) ==
    LET v == dropna(s)
    IN  IF v = <<>> THEN NaN ELSE Div(SumRange(v, 1, Len(v)), Q(Len(v), 1))

\* the rows of one group of groupby(key), in row order
RECURSIVE GroupIdx(_, _, _)
GroupIdx(keys, k, i) ==
    IF i > Len(keys) THEN <<>>
    ELSE IF keys[i] = k THEN <<i>> \o GroupIdx(keys, k, i + 1)
    ELSE GroupIdx(keys, k, i + 1)

Column(rows, c) == [i \in 1..Len(rows) |-> rows[i][c]]

\* calendar of the timestamps: hours since 2024-01-01 00:00, a Monday
HourOf(ts) == ts % 24
DateOf(ts) == ts \div 24
DayOfWeek(date) == date % 7
MonthOf(date) == IF date < 31 THEN 1 ELSE IF date < 60 THEN 2 ELSE 3

pm2_5_lag_1h(pm) == shift(pm, 1)

\* the lag taken 23 rows back
pm2_5_lag_24h_OffByOne(pm) == shift(pm, 23)
pm2_5_lag_24h(pm) == shift(pm, 24)

\* the window given min_periods = 1
pm2_5_6h_avg_MinPeriods1(pm) ==
    [i \in 1..Len(pm) |->
        LET lo == IF i > 6 THEN i - 5 ELSE 1
        IN  IF \E j \in lo..i : isna(pm[j]) THEN NaN
            ELSE Div(SumRange(pm, lo, i), Q(i - lo + 1, 1))]
pm2_5_6h_avg(pm) == rolling_mean(pm, 6)
pm2_5_24h_avg(pm) == rolling_mean(pm, 24)

\* groupby('date')['aqi'].transform('mean')
daily_avg_aqi(dates, a) ==
    [i \in 1..Len(a) |->
        LET g == GroupIdx(dates, dates[i], 1)
        IN  mean([j \in 1..Len(g) |-> a[g[j]]])]

\* the 24-step lead taken over the whole column before grouping by date
next_day_avg_aqi_ShiftThenGroup(dates, a) ==
    [i \in 1..Len(a) |->
        LET g == GroupIdx(dates, dates[i], 1)
            lead == shift(a, -24)
        IN  mean([j \in 1..Len(g) |-> lead[g[j]]])]

\* groupby('date')['aqi'].transform(lambda x: x.shift(-24).mean())
next_day_avg_aqi(dates, a) ==
    [i \in 1..Len(a) |->
        LET g == GroupIdx(dates, dates[i], 1)
        IN  mean(shift([j \in 1..Len(g) |-> a[g[j]]], -24))]

create_features(d) ==
    LET pm == Column(d, "pm2_5")
        a == Column(d, "aqi")
        dates == [i \in 1..Len(d) |-> DateOf(d[i].timestamp)]
        lag1 == pm2_5_lag_1h(pm)
        lag24 == pm2_5_lag_24h(pm)
        avg6 == pm2_5_6h_avg(pm)
        avg24 == pm2_5_24h_avg(pm)
        davg == daily_avg_aqi(dates, a)
        label == next_day_avg_aqi(dates, a)
    IN  [i \in 1..Len(d) |->
            [timestamp |-> d[i].timestamp,
             pm2_5 |-> d[i].pm2_5,
             aqi |-> d[i].aqi,
             hour |-> HourOf(d[i].timestamp),
             day_of_week |-> DayOfWeek(dates[i]),
             month |-> MonthOf(dates[i]),
             is_weekend |-> IF DayOfWeek(dates[i]) \in {5, 6} THEN 1 ELSE 0,
             pm2_5_lag_1h |-> lag1[i],
             pm2_5_lag_24h |-> lag24[i],
             pm2_5_6h_avg |-> avg6[i],
             pm2_5_24h_avg |-> avg24[i],
             date |-> dates[i],
             daily_avg_aqi |-> davg[i],
             next_day_avg_aqi |-> label[i]]]

\* the tables the feature engineer is given: n rows in time order starting at hour
\* h0, per_hour rows to the hour, pm2.5 readings following a repeating pattern with
\* the readings at rows m1 and m2 missing (0: none; m2 is the last row or none), the AQI computed by the collector
StartHours == {0, 130}
RowsPerHour == {1, 2}

HourlyTable(n, h0, per_hour, seed, m1, m2) ==
    [i \in 1..n |->
        LET v == IF i = m1 \/ i = m2 THEN NaN
                 ELSE Dec(240 * (1 + ((i * (seed + 1)) % 5)))
        IN  [timestamp |-> h0 + ((i - 1) \div per_hour), pm2_5 |-> v, aqi |-> AqiOf(v)]]

InitFeatures ==
    /\ AqiIdle
    /\ CollectorIdle
    /\ TrainerIdle
    /\ \E n \in 0..MaxLen, h0 \in StartHours, per_hour \in RowsPerHour, seed \in 0..1 :
         \E m1 \in 0..n, m2 \in {0, n} :
            df = HourlyTable(n, h0, per_hour, seed, m1, m2)
    /\ features = NoFeatures
    /\ daily_in = <<>> /\ daily = NoFeatures

CreateFeatures ==
    /\ ~features.ready
    /\ features' = [ready |-> TRUE, rows |-> create_features(df)]
    /\ UNCHANGED <<pm25, aqi, collectorVars, df, daily_in, daily, trainerVars>>

NextFeatures == CreateFeatures

SpecFeatures == InitFeatures /\ [][NextFeatures]_vars

Defined(rows, c) == {i \in 1..Len(rows) : ~isna(rows[i][c])}
NoMissingPm == \A i \in 1..Len(df) : ~isna(df[i].pm2_5)

\* C4 (as stated): for every input of N > 24 rows pm2_5_lag_24h is defined for exactly
\* N-24 rows and, from the 25th row on, equals pm2_5 of 24 rows earlier.
C4_Lag24AsStated ==
    (features.ready /\ Len(df) > 24) =>
        /\ Cardinality(Defined(features.rows, "pm2_5_lag_24h")) = Len(df) - 24
        /\ \A i \in 25..Len(df) : features.rows[i].pm2_5_lag_24h = df[i - 24].pm2_5

\* C4 (amended): for every input of N > 24 rows pm2_5_lag_24h is missing on the first
\* 24 rows and, from the 25th row on, equals pm2_5 of 24 rows earlier, missing values
\* included; it is defined for as many rows as the first N-24 rows hold non-missing
\* pm2_5, which is N-24 when none of them is missing.
C4_Lag24 ==
    (features.ready /\ Len(df) > 24) =>
        /\ Len(features.rows) = Len(df)
        /\ \A i \in 1..24 : isna(features.rows[i].pm2_5_lag_24h)
        /\ \A i \in 25..Len(df) : features.rows[i].pm2_5_lag_24h = df[i - 24].pm2_5
        /\ Cardinality(Defined(features.rows, "pm2_5_lag_24h"))
             = Cardinality({i \in 1..(Len(df) - 24) : ~isna(df[i].pm2_5)})
        /\ (\A i \in 1..(Len(df) - 24) : ~isna(df[i].pm2_5)) =>
             Cardinality(Defined(features.rows, "pm2_5_lag_24h")) = Len(df) - 24

\* features of a table of 27 rows whose 2nd reading is missing
C4_Witness ==
    /\ features.ready
    /\ Len(df) = 27
    /\ isna(df[2].pm2_5)
    /\ isna(features.rows[26].pm2_5_lag_24h)
    /\ ~isna(features.rows[27].pm2_5_lag_24h)

\* C5 (as stated): with no pm2_5 missing, pm2_5_lag_1h is missing for the first row,
\* pm2_5_6h_avg for the first 6 rows, pm2_5_lag_24h and pm2_5_24h_avg for the first 24
\* rows, and each is defined on every later row.
C5_PrefixAsStated ==
    (features.ready /\ NoMissingPm) =>
        \A i \in 1..Len(df) :
            /\ isna(features.rows[i].pm2_5_lag_1h) <=> i <= 1
            /\ isna(features.rows[i].pm2_5_6h_avg) <=> i <= 6
            /\ isna(features.rows[i].pm2_5_lag_24h) <=> i <= 24
            /\ isna(features.rows[i].pm2_5_24h_avg) <=> i <= 24

\* C5 (amended): with no pm2_5 missing, pm2_5_lag_1h is missing for the first row,
\* pm2_5_6h_avg for the first 5 rows, pm2_5_24h_avg for the first 23 rows and
\* pm2_5_lag_24h for the first 24 rows, and each is defined on every later row.
C5_Prefix ==
    (features.ready /\ NoMissingPm) =>
        \A i \in 1..Len(df) :
            /\ isna(features.rows[i].pm2_5_lag_1h) <=> i <= 1
            /\ isna(features.rows[i].pm2_5_6h_avg) <=> i <= 5
            /\ isna(features.rows[i].pm2_5_lag_24h) <=> i <= 24
            /\ isna(features.rows[i].pm2_5_24h_avg) <=> i <= 23

\* features of a table of more than 24 rows without a missing reading
C5_Witness ==
    /\ features.ready
    /\ NoMissingPm
    /\ Len(df) > 24
    /\ ~isna(features.rows[6].pm2_5_6h_avg)
    /\ ~isna(features.rows[24].pm2_5_24h_avg)
    /\ isna(features.rows[24].pm2_5_lag_24h)

\* the number of rows of the input on each calendar date is at most 24
AtMost24PerDate ==
    \A i \in 1..Len(df) :
        Cardinality({j \in 1..Len(df) : DateOf(df[j].timestamp) = DateOf(df[i].timestamp)})
            <= 24

----------------------------------------------------------------------------
(* Feature engineer, daily path: AQIFeatureEngineer.create_daily_data *)

Max2(x, y) == IF Leq(x, y) THEN y ELSE x
Min2(x, y) == IF Leq(x, y) THEN x ELSE y

RECURSIVE FoldMax(_)
FoldMax(s) == IF Len(s) = 1 THEN s[1] ELSE Max2(s[1], FoldMax(Tail(s)))
RECURSIVE FoldMin(_)
FoldMin(s) == IF Len(s) = 1 THEN s[1] ELSE Min2(s[1], FoldMin(Tail(s)))

\* pandas max() / min(): skip missing values, missing when none is left
max(s) == LET v == dropna(s) IN IF v = <<>> THEN NaN ELSE FoldMax(v)
min(s) == LET v == dropna(s) IN IF v = <<>> THEN NaN ELSE FoldMin(v)

\* the largest t in lo..hi-1 with t*t*d <= x, given lo*lo*d <= x < hi*hi*d
RECURSIVE ISqrt(_, _, _, _)
ISqrt(x, d, lo, hi) ==
    IF hi - lo <= 1 THEN lo
    ELSE LET mid == (lo + hi) \div 2
         IN  IF mid * mid * d <= x THEN ISqrt(x, d, mid, hi) ELSE ISqrt(x, d, lo, mid)

\* pandas std(): the sample standard deviation (ddof = 1) of the non-missing values,
\* missing when fewer than two are left; given here already rounded to 2 decimals
std_round2(s) ==
    LET v == dropna(s)
        k == Len(v)
        m == mean(v)
        sq == [i \in 1..k |-> Mul(Sub(v[i], m), Sub(v[i], m))]
        var == Div(SumRange(sq, 1, k), Q(k - 1, 1))
        spread == Sub(FoldMax(v), FoldMin(v))
        hi == 200 * ((spread[1] \div spread[2]) + 1) + 1
        t == ISqrt(40000 * var[1], var[2], 0, hi)
    IN  IF k < 2 THEN NaN ELSE Q((t + 1) \div 2, 100)

\* DataFrame.round(2)
round2(x) == IF isna(x) THEN NaN ELSE Q(RoundUnits(x, 2), 100)

RECURSIVE Distinct(_, _)
Distinct(s, seen) ==
    IF s = <<>> THEN <<>>
    ELSE IF Head(s) \in seen THEN Distinct(Tail(s), seen)
    ELSE <<Head(s)>> \o Distinct(Tail(s), seen \cup {Head(s)})

RECURSIVE Ascending(_)
Ascending(S) ==
    IF S = {} THEN <<>>
    ELSE LET lo == CHOOSE x \in S : \A y \in S : x <= y
         IN  <<lo>> \o Ascending(S \ {lo})

\* the group keys in order of first appearance, as groupby(sort=False) gives them
group_keys_Unsorted(dates) == Distinct(dates, {})

\* the group keys of groupby('date'): the distinct dates, sorted ascending
group_keys(dates) == Ascending({dates[i] : i \in 1..Len(dates)})

DayName(dow) ==
    <<"Monday", "Tuesday", "Wednesday", "Thursday", "Friday", "Saturday", "Sunday">>[dow + 1]

create_daily_data(d) ==
    LET dates == Column(d, "date")
        keys == group_keys(dates)
        grp(k, c) == LET g == GroupIdx(dates, k, 1) IN [j \in 1..Len(g) |-> d[g[j]][c]]
        avg == [i \in 1..Len(keys) |-> round2(mean(grp(keys[i], "aqi")))]
        prev_day == shift(avg, 1)
        prev_week == shift(avg, 7)
        next_day == shift(avg, -1)
    IN  [i \in 1..Len(keys) |->
            [date |-> keys[i],
             daily_avg_aqi |-> avg[i],
             daily_max_aqi |-> round2(max(grp(keys[i], "aqi"))),
             daily_min_aqi |-> round2(min(grp(keys[i], "aqi"))),
             daily_std_aqi |-> std_round2(grp(keys[i], "aqi")),
             pm2_5_mean |-> round2(mean(grp(keys[i], "pm2_5"))),
             pm10_mean |-> round2(mean(grp(keys[i], "pm10"))),
             ozone_mean |-> round2(mean(grp(keys[i], "ozone"))),
             day_of_week |-> DayOfWeek(keys[i]),
             day_name |-> DayName(DayOfWeek(keys[i])),
             prev_day_aqi |-> prev_day[i],
             prev_week_aqi |-> prev_week[i],
             next_day_aqi |-> next_day[i]]]

\* the tables the daily path is given: nd dates, gap days apart, 1 to 3 rows each, whole
\* AQI values following a repeating pattern, every reading of date number jm missing and
\* the first reading of date number jp missing (0: none), the rows in one of four orders
Reverse(s) == [i \in 1..Len(s) |-> s[Len(s) + 1 - i]]
Rotate(s, k) == [i \in 1..Len(s) |-> s[((i - 1 + k) % Len(s)) + 1]]
OddsThenEvens(s) ==
    LET n == Len(s)
        h == (n + 1) \div 2
    IN  [i \in 1..n |-> IF i <= h THEN s[2 * i - 1] ELSE s[2 * (i - h)]]

RECURSIVE DateRows(_, _, _, _, _, _)
DateRows(j, nd, gap, seed, jm, jp) ==
    IF j > nd THEN <<>>
    ELSE LET cnt == 1 + ((j + seed) % 3)
             val(slot) == IF j = jm \/ (j = jp /\ slot = 1) THEN NaN
                          ELSE Q(40 + 10 * ((3 * j + 2 * slot + seed) % 4), 1)
             pm(slot) == IF j = jm THEN NaN ELSE Dec(240 * (1 + ((j + slot) % 5)))
         IN  [slot \in 1..cnt |->
                [date |-> 1 + (j - 1) * gap, aqi |-> val(slot), pm2_5 |-> pm(slot),
                 pm10 |-> Dec(3000 + 500 * slot), ozone |-> Dec(6000 + 100 * j)]]
             \o DateRows(j + 1, nd, gap, seed, jm, jp)

Orders == {"ascending", "descending", "rotated", "odds_then_evens"}

Reorder(s, order) ==
    IF s = <<>> \/ order = "ascending" THEN s
    ELSE IF order = "descending" THEN Reverse(s)
    ELSE IF order = "rotated" THEN Rotate(s, 2)
    ELSE OddsThenEvens(s)

InitDaily ==
    /\ AqiIdle
    /\ CollectorIdle
    /\ TrainerIdle
    /\ df = <<>> /\ features = NoFeatures
    /\ \E nd \in 0..MaxDates, gap \in {1, 3}, seed \in 0..1, order \in Orders :
         \E jm \in 0..nd, jp \in {0, 2} :
            daily_in = Reorder(DateRows(1, nd, gap, seed, jm, jp), order)
    /\ daily = NoFeatures

CreateDailyData ==
    /\ ~daily.ready
    /\ daily' = [ready |-> TRUE, rows |-> create_daily_data(daily_in)]
    /\ UNCHANGED <<pm25, aqi, collectorVars, df, features, daily_in, trainerVars>>

NextDaily == CreateDailyData

SpecDaily == InitDaily /\ [][NextDaily]_vars

InputDates == {daily_in[i].date : i \in 1..Len(daily_in)}

\* C6 (as stated): the output has one row per distinct date in strictly ascending
\* order; prev_day_aqi[i] = daily_avg_aqi[i-1] (missing for the first row),
\* prev_week_aqi[i] = daily_avg_aqi[i-7] (missing for the first 7 rows),
\* next_day_aqi[i] = daily_avg_aqi[i+1], missing for the last row only.
C6_DailyLagsAsStated ==
    daily.ready =>
        LET r == daily.rows
            n == Len(daily.rows)
        IN  /\ {r[i].date : i \in 1..n} = InputDates
            /\ \A i \in 1..(n - 1) : r[i].date < r[i + 1].date
            /\ \A i \in 1..n :
                 /\ r[i].prev_day_aqi = (IF i > 1 THEN r[i - 1].daily_avg_aqi ELSE NaN)
                 /\ r[i].prev_week_aqi = (IF i > 7 THEN r[i - 7].daily_avg_aqi ELSE NaN)
                 /\ r[i].next_day_aqi = (IF i < n THEN r[i + 1].daily_avg_aqi ELSE NaN)
                 /\ isna(r[i].next_day_aqi) <=> i = n

\* C6 (amended): as stated, except that next_day_aqi is missing for the last row and
\* for every row whose following date has no non-missing AQI (its daily_avg_aqi is
\* missing), and for no other row.
C6_DailyLags ==
    daily.ready =>
        LET r == daily.rows
            n == Len(daily.rows)
        IN  /\ {r[i].date : i \in 1..n} = InputDates
            /\ \A i \in 1..(n - 1) : r[i].date < r[i + 1].date
            /\ \A i \in 1..n :
                 /\ r[i].prev_day_aqi = (IF i > 1 THEN r[i - 1].daily_avg_aqi ELSE NaN)
                 /\ r[i].prev_week_aqi = (IF i > 7 THEN r[i - 7].daily_avg_aqi ELSE NaN)
                 /\ r[i].next_day_aqi = (IF i < n THEN r[i + 1].daily_avg_aqi ELSE NaN)
                 /\ isna(r[i].next_day_aqi) <=>
                       (i = n \/ \A k \in 1..Len(daily_in) :
                                    daily_in[k].date = r[i + 1].date => isna(daily_in[k].aqi))

\* a table of 9 dates given in descending order, all readings of its 3rd date missing
C6_Witness ==
    /\ daily.ready
    /\ Len(daily.rows) = 9
    /\ daily_in[1].date > daily_in[Len(daily_in)].date
    /\ isna(daily.rows[3].daily_avg_aqi)
    /\ isna(daily.rows[2].next_day_aqi)
    /\ ~isna(daily.rows[9].prev_week_aqi)
    /\ daily.rows[9].prev_week_aqi = daily.rows[2].daily_avg_aqi

----------------------------------------------------------------------------
(* Trainer and predictor: SimpleAQIModel *)

\* the scikit-learn releases a build may run on: up to 1.1 a mismatch of feature names
\* only warns; from 1.4 the forest accepts missing values in X
Releases == {"1.1", "1.3", "1.4"}
StrictNames(release) == release # "1.1"
NanAllowed(release) == release = "1.4"

\* the column lists of the tables passed as X
ColumnLists ==
    {<<"daily_avg_aqi", "pm2_5_mean">>, <<"pm2_5_mean", "daily_avg_aqi">>,
     <<"daily_avg_aqi", "pm10_mean">>, <<"daily_avg_aqi">>}

\* a table of n rows in time order, each row named by its position
Table(n) == [i \in 1..n |-> i]

Elems(q) == {q[i] : i \in 1..Len(q)}

\* ceil(0.2 * n), the float product being within half an ulp of n/5
CeilFifth(n) == (n + 4) \div 5

\* the split taking floor(0.2 * n) rows for the test part
train_test_split_Floor(X) ==
    LET n == Len(X)
        n_test == n \div 5
        n_train == n - n_test
    IN  IF n_train = 0
        THEN [error |-> "ValueError", train |-> <<>>, test |-> <<>>]
        ELSE [error |-> "none", train |-> SubSeq(X, 1, n_train),
              test |-> SubSeq(X, n_train + 1, n)]

\* train_test_split(X, y, test_size=0.2, random_state=42, shuffle=False)
train_test_split(X) ==
    LET n == Len(X)
        n_test == CeilFifth(n)
        n_train == n - n_test
    IN  IF n_train = 0
        THEN [error |-> "ValueError", train |-> <<>>, test |-> <<>>]
        ELSE [error |-> "none", train |-> SubSeq(X, 1, n_train),
              test |-> SubSeq(X, n_train + 1, n)]

\* self.model.fit(X_train, y_train)
fit(m, columns, rows) ==
    IF rows = <<>>
    THEN [error |-> "ValueError", model |-> m]
    ELSE [error |-> "none",
          model |-> [fitted |-> TRUE, feature_names_in_ |-> columns, trained_on |-> rows]]

\* self.model.predict(X): the exception raised, if any
predict_NoFitCheck(m, columns, rows, has_nan, release) ==
    IF Len(columns) # Len(m.feature_names_in_) THEN "ValueError"
    ELSE IF StrictNames(release) /\ columns # m.feature_names_in_ THEN "ValueError"
    ELSE IF rows = <<>> THEN "ValueError"
    ELSE IF has_nan /\ ~NanAllowed(release) THEN "ValueError"
    ELSE "none"

predict(m, columns, rows, has_nan, release) ==
    IF ~m.fitted THEN "NotFittedError"
    ELSE IF StrictNames(release) /\ columns # m.feature_names_in_ THEN "ValueError"
    ELSE IF rows = <<>> THEN "ValueError"
    ELSE IF has_nan /\ ~NanAllowed(release) THEN "ValueError"
    ELSE IF Len(columns) # Len(m.feature_names_in_) THEN "ValueError"
    ELSE "none"

\* train with the model fitted on all of X before the split is made
train_FitThenSplit(m, fi, X, columns, release) ==
    LET f == fit(m, columns, X)
        sp == train_test_split(X)
    IN  IF f.error # "none" \/ sp.error # "none"
        THEN [error |-> "ValueError", model |-> f.model, feature_importance |-> fi,
              X_train |-> sp.train, X_test |-> sp.test, fit_rows |-> <<>>,
              eval_rows |-> <<>>]
        ELSE [error |-> "none", model |-> f.model,
              feature_importance |-> [set |-> TRUE, feature |-> Elems(columns)],
              X_train |-> sp.train, X_test |-> sp.test, fit_rows |-> X,
              eval_rows |-> sp.test]

\* SimpleAQIModel.train(X, y): the exception that escapes, the model and the importance
\* table afterwards, the two parts of the split, the rows the model was fitted on and
\* the rows MAE, RMSE and R2 were computed on
train(m, fi, X, columns, release) ==
    LET sp == train_test_split(X)
        f == fit(m, columns, sp.train)
        p == predict(f.model, columns, sp.test, FALSE, release)
    IN  IF sp.error # "none"
        THEN [error |-> sp.error, model |-> m, feature_importance |-> fi,
              X_train |-> <<>>, X_test |-> <<>>, fit_rows |-> <<>>, eval_rows |-> <<>>]
        ELSE IF f.error # "none"
        THEN [error |-> f.error, model |-> m, feature_importance |-> fi,
              X_train |-> sp.train, X_test |-> sp.test, fit_rows |-> <<>>,
              eval_rows |-> <<>>]
        ELSE IF p # "none"
        THEN [error |-> p, model |-> f.model, feature_importance |-> fi,
              X_train |-> sp.train, X_test |-> sp.test, fit_rows |-> f.model.trained_on,
              eval_rows |-> <<>>]
        ELSE [error |-> "none", model |-> f.model,
              feature_importance |-> [set |-> TRUE, feature |-> Elems(columns)],
              X_train |-> sp.train, X_test |-> sp.test, fit_rows |-> f.model.trained_on,
              eval_rows |-> sp.test]

\* SimpleAQIModel(): a new object replaces the one at hand
Construct ==
    /\ model' = UnfittedModel
    /\ feature_importance' = None
    /\ last' = [NoCall EXCEPT !.op = "init"]
    /\ UNCHANGED <<sklearn, model_file>>
    /\ UNCHANGED <<pm25, aqi, collectorVars, featureVars>>

Train ==
    /\ \E n \in 0..MaxTrainRows, columns \in ColumnLists :
         LET X == Table(n)
             r == train(model, feature_importance, X, columns, sklearn)
         IN  /\ model' = r.model
             /\ feature_importance' = r.feature_importance
             /\ last' = [NoCall EXCEPT !.op = "train", !.error = r.error, !.X = X,
                                       !.columns = columns, !.X_train = r.X_train,
                                       !.X_test = r.X_test, !.fit_rows = r.fit_rows,
                                       !.eval_rows = r.eval_rows]
    /\ UNCHANGED <<sklearn, model_file>>
    /\ UNCHANGED <<pm25, aqi, collectorVars, featureVars>>

Predict ==
    /\ \E n \in 0..1, columns \in ColumnLists, has_nan \in BOOLEAN :
         LET X == Table(n)
         IN  last' = [NoCall EXCEPT !.op = "predict", !.X = X, !.columns = columns,
                                    !.has_nan = has_nan /\ n > 0,
                                    !.error = predict(model, columns, X,
                                                      has_nan /\ n > 0, sklearn)]
    /\ UNCHANGED <<sklearn, model, feature_importance, model_file>>
    /\ UNCHANGED <<pm25, aqi, collectorVars, featureVars>>

Save ==
    /\ model_file' = [exists |-> TRUE, model |-> model,
                      feature_importance |-> feature_importance]
    /\ last' = [NoCall EXCEPT !.op = "save"]
    /\ UNCHANGED <<sklearn, model, feature_importance>>
    /\ UNCHANGED <<pm25, aqi, collectorVars, featureVars>>

Load ==
    /\ IF model_file.exists
       THEN /\ model' = model_file.model
            /\ feature_importance' = model_file.feature_importance
            /\ last' = [NoCall EXCEPT !.op = "load", !.returned = TRUE]
       ELSE /\ UNCHANGED <<model, feature_importance>>
            /\ last' = [NoCall EXCEPT !.op = "load", !.returned = FALSE]
    /\ UNCHANGED <<sklearn, model_file>>
    /\ UNCHANGED <<pm25, aqi, collectorVars, featureVars>>

InitTrainer ==
    /\ AqiIdle
    /\ CollectorIdle
    /\ FeaturesIdle
    /\ sklearn \in Releases
    /\ model = UnfittedModel
    /\ feature_importance = None
    /\ model_file = NoFile
    /\ last = [NoCall EXCEPT !.op = "init"]

NextTrainer == Construct \/ Train \/ Predict \/ Save \/ Load

SpecTrainer == InitTrainer /\ [][NextTrainer]_vars

\* C7: chronological 80/20 split in train: for every input of n >= 2 rows the training
\* rows are a prefix and the test rows the remaining suffix of the input in its order,
\* every row is in exactly one of the two, every training row precedes every test row,
\* the test part holds ceil(0.2 * n) rows, the model is fitted on the training rows
\* only and MAE, RMSE and R2 are computed on the test rows only.
C7_ChronologicalSplit ==
    (last.op = "train" /\ Len(last.X) >= 2) =>
        /\ last.error = "none"
        /\ last.X_train \o last.X_test = last.X
        /\ Elems(last.X_train) \cap Elems(last.X_test) = {}
        /\ \A a \in Elems(last.X_train), b \in Elems(last.X_test) : a < b
        /\ 5 * Len(last.X_test) >= Len(last.X)
        /\ 5 * (Len(last.X_test) - 1) < Len(last.X)
        /\ Len(last.X_train) >= 1
        /\ last.fit_rows = last.X_train
        /\ model.fitted /\ model.trained_on = last.X_train
        /\ last.eval_rows = last.X_test

\* a training on 4 rows of a model that was trained on 5 rows and saved before
C7_Witness ==
    /\ last.op = "train"
    /\ Len(last.X) = 4
    /\ last.X_train = <<1, 2, 3>>
    /\ last.eval_rows = <<4>>
    /\ model_file.exists /\ model_file.model.trained_on = <<1, 2, 3, 4>>

\* C8 (as stated): train fails with InsufficientDataError whenever fewer than 2 rows
\* are usable or the test split would be empty.
C8_InsufficientDataAsStated ==
    (last.op = "train" /\ (Len(last.X) < 2 \/ CeilFifth(Len(last.X)) = 0)) =>
        last.error = "InsufficientDataError"

\* C8 (amended): train fails with the ValueError of train_test_split, which escapes to
\* the caller, whenever the table passed has fewer than 2 rows; the call then leaves
\* the model, feature_importance and the model file as they were.
C8_TrainValidation ==
    [][(last'.op = "train" /\ Len(last'.X) < 2) =>
          /\ last'.error = "ValueError"
          /\ last'.fit_rows = <<>>
          /\ model' = model
          /\ feature_importance' = feature_importance
          /\ model_file' = model_file]_vars

\* a train on one row failed on a model trained before
C8_Witness ==
    /\ last.op = "train"
    /\ Len(last.X) = 1
    /\ last.error = "ValueError"
    /\ model.fitted
    /\ feature_importance.set

\* C9 (as stated): predict fails with SchemaMismatchError exactly when X's column set
\* differs from the column set used at train time, and otherwise never fails.
C9_PredictAsStated ==
    last.op = "predict" =>
        /\ last.error \in {"none", "SchemaMismatchError"}
        /\ last.error = "SchemaMismatchError"
             <=> Elems(last.columns) # Elems(model.feature_names_in_)

\* C9 (amended): predict never raises SchemaMismatchError; on a model that was never
\* fitted it fails with NotFittedError; on a fitted model it fails with ValueError
\* when X has another number of columns than the training table, and succeeds when X
\* has the training columns in the training order, at least one row and no missing
\* value; predict leaves the model, feature_importance and the model file unchanged.
C9_Predict ==
    [][last'.op = "predict" =>
          /\ model' = model
          /\ feature_importance' = feature_importance
          /\ model_file' = model_file
          /\ last'.error # "SchemaMismatchError"
          /\ ~model.fitted => last'.error = "NotFittedError"
          /\ (model.fitted /\ Len(last'.columns) # Len(model.feature_names_in_))
               => last'.error = "ValueError"
          /\ (/\ model.fitted
              /\ last'.columns = model.feature_names_in_
              /\ last'.X # <<>>
              /\ ~last'.has_nan)
               => last'.error = "none"]_vars

\* predict on a model loaded from a file that was saved before any training
C9_Witness ==
    /\ last.op = "predict"
    /\ last.error = "NotFittedError"
    /\ model_file.exists
    /\ ~model_file.model.fitted

====
